---------------------------- MODULE Spec2Model ----------------------------
(***************************************************************************)
(* A model of plugins/bap/utils/run.py: the configuration resolver         *)
(* check_and_configure_bap and the run orchestrator run_bap_with.          *)
(*                                                                         *)
(* Strings whose contents the code inspects (paths, probe outputs, the     *)
(* stored 'enabled' value) are sequences of one-character strings, so that *)
(* strip, endswith, os.path.join and lower are computed, not assumed.      *)
(* An optional value (None or a value) is a sequence of length 0 or 1.     *)
(***************************************************************************)
EXTENDS Naturals, Sequences, FiniteSets

VARIABLES
    config,            \* the configuration store: a function from the keys that are set
    pc,                \* the position of the current call
    callKind,          \* "configure": check_and_configure_bap called alone; "run": run_bap_with
    argument_string,   \* run_bap_with's argument_string, as its shell words
    no_extras,         \* run_bap_with's no_extras
    probes,            \* the discovery probes invoked in this call, with their outcomes
    default_bap_path,  \* config_path's default_bap_path
    prompted,          \* TRUE once this call has shown the user a dialog
    shownDefault,      \* the default path handed to the file dialogs of this call
    bap_path,          \* what the last file dialog returned (None or a path)
    confirmed,         \* the soft validations the user confirmed for bap_path
    refused,           \* TRUE when the last confirmation dialog was answered other than Yes
    args,              \* run_bap_with's args: the paths substituted into the commands
    created,           \* the temp files this call created with mkstemp
    bap_api_enabled,   \* run_bap_with's bap_api_enabled
    command,           \* run_bap_with's command
    log,               \* the collaborator calls and idc.Exec calls of this call, in order
    output,            \* what the output temp file holds
    exc,               \* the exception that ended this call, "" if none
    config0,           \* the configuration store when this call started
    afterConfigure,    \* TRUE when this call directly follows a check_and_configure_bap
                       \* call that returned
    flagReads          \* the functions that have read the 'enabled' key in this call

vars == <<config, pc, callKind, argument_string, no_extras, probes, default_bap_path,
          prompted, shownDefault, bap_path, confirmed, refused, args, created,
          bap_api_enabled, command, log, output, exc, config0, afterConfigure,
          flagReads>>

cfgVars == <<probes, default_bap_path, prompted, shownDefault, bap_path, confirmed, refused>>
runVars == <<args, created, bap_api_enabled, command, log, output>>
callParams == <<callKind, argument_string, no_extras, config0, afterConfigure>>
callVars == <<callParams, flagReads>>

---------------------------------------------------------------------------
(* Optional values *)

None == << >>
Some(v) == << v >>
IsNone(o) == o = << >>
The(o) == o[1]

---------------------------------------------------------------------------
(* Strings as character sequences, and the string functions the code uses *)

Whitespace == {" ", "\n", "\t"}

bap == <<"b", "a", "p">>

\* str.endswith
EndsWith(s, suffix) ==
    /\ Len(s) >= Len(suffix)
    /\ SubSeq(s, Len(s) - Len(suffix) + 1, Len(s)) = suffix

RECURSIVE LStrip(_)
LStrip(s) == IF s # << >> /\ Head(s) \in Whitespace THEN LStrip(Tail(s)) ELSE s

RECURSIVE RStrip(_)
RStrip(s) ==
    IF s # << >> /\ s[Len(s)] \in Whitespace THEN RStrip(SubSeq(s, 1, Len(s) - 1)) ELSE s

\* str.strip
Strip(s) == RStrip(LStrip(s))

\* os.path.join(a, b) of posixpath, for two components
PathJoin(a, b) ==
    IF b # << >> /\ Head(b) = "/" THEN b
    ELSE IF a = << >> \/ a[Len(a)] = "/" THEN a \o b
    ELSE a \o <<"/">> \o b

LowerChar(c) ==
    CASE c = "T" -> "t" [] c = "R" -> "r" [] c = "U" -> "u" [] c = "E" -> "e"
      [] c = "Y" -> "y" [] c = "S" -> "s" [] c = "N" -> "n" [] c = "O" -> "o"
      [] OTHER -> c

\* str.lower
Lower(s) == [i \in 1..Len(s) |-> LowerChar(s[i])]

---------------------------------------------------------------------------
(* The environment: what the user, the probes and the file system may give *)

\* Paths the user may pick in the file dialog
P_bap == <<"/", "b", "a", "p">>
P_x_bap == <<"/", "x", "/", "b", "a", "p">>
P_sh == <<"/", "s", "h">>
P_x == <<"/", "x">>
UserPaths == {P_bap, P_x_bap, P_sh, P_x}

\* os.path.isfile: the paths that are existing files
FilesOnDisk == {P_bap, P_sh}

\* What 'which bap' may print when it succeeds
WhichOutputs == {P_bap \o <<"\n">>, P_sh \o <<"\n">>}

\* What 'opam config var bap:bin' may print when it succeeds
OpamOutputs == {P_x \o <<"\n">>, <<"/", "x", "/", "\n">>, <<"\n">>}

\* Values the 'enabled' key of section 'bap_api' may hold
EnabledValues ==
    { <<"1">>, <<"0">>, <<"T", "r", "u", "e">>, <<"Y", "E", "S">>, <<"n", "o">>,
      <<"o", "n">>, << >> }

\* The path of the file open in the host
InputFilePath == <<"/", "i", "n">>

---------------------------------------------------------------------------
(* The configuration store *)

K_path == "bap_executable_path"
K_enabled == "bap_api/enabled"

\* config.get(key, default=None, section=...): an optional value
ConfigGet(cfg, key) == IF key \in DOMAIN cfg THEN Some(cfg[key]) ELSE None

\* config.get(key, default=d, section=...)
ConfigGetDefault(cfg, key, d) == IF key \in DOMAIN cfg THEN cfg[key] ELSE d

\* config.set(key, value, section=...)
ConfigSet(cfg, key, value) ==
    [k \in DOMAIN cfg \cup {key} |-> IF k = key THEN value ELSE cfg[k]]

Configs ==
    { f \in UNION { [D -> UserPaths \cup EnabledValues] : D \in SUBSET {K_path, K_enabled} } :
        /\ K_path \in DOMAIN f => f[K_path] \in UserPaths
        /\ K_enabled \in DOMAIN f => f[K_enabled] \in EnabledValues }


---------------------------------------------------------------------------
(* Calls *)

NoArgs == [bap_executable_path |-> << >>, bap_output_file |-> << >>,
           input_file_path |-> << >>, symbol_file_location |-> << >>,
           header_path |-> << >>, remaining_args |-> << >>]

\* A call starts: its local state is fresh, the configuration store persists
EnterCall(kind, a, n) ==
    /\ pc \in {"idle", "done"}
    /\ pc' = "config_path"
    /\ callKind' = kind
    /\ argument_string' = a
    /\ no_extras' = n
    /\ config0' = config
    /\ afterConfigure' = (pc = "done" /\ callKind = "configure" /\ exc = "")
    /\ flagReads' = {}
    /\ probes' = << >>
    /\ default_bap_path' = << >>
    /\ prompted' = FALSE
    /\ shownDefault' = None
    /\ bap_path' = None
    /\ confirmed' = {}
    /\ refused' = FALSE
    /\ args' = NoArgs
    /\ created' = {}
    /\ bap_api_enabled' = FALSE
    /\ command' = << >>
    /\ log' = << >>
    /\ output' = None
    /\ exc' = ""
    /\ UNCHANGED config

\* An exception leaves the call: nothing after the raising statement runs
Raise(e) ==
    /\ pc' = "done"
    /\ exc' = e

---------------------------------------------------------------------------
(* check_and_configure_bap *)

Probe(name, outcome, out) == [probe |-> name, outcome |-> outcome, out |-> out]

\* faulty variant: the probe result is used without the suffix test
UncheckedDefault(p) == p

\* config_path's test of the probe result's suffix
PlausibleDefault(p) == IF EndsWith(p, bap) THEN p ELSE << >>

\* faulty variant: discovery is not skipped when the path is configured
PathNeverConfigured(cfg) == FALSE

\* config_path's early return when the path is configured
PathConfigured(cfg) == ~IsNone(ConfigGet(cfg, K_path))

\* the handlers of the second probe's try: the exceptions it swallows
OpamSwallowed == {"OSError"}

call_check_and_configure_bap ==
    EnterCall("configure", << >>, FALSE)

config_path_return ==
    /\ pc = "config_path"
    /\ PathConfigured(config)
    /\ pc' = "config_bap_api"
    /\ UNCHANGED <<config, callVars, cfgVars, runVars, exc>>

\* check_output(['which', 'bap']) and, when it succeeds, the suffix test
probe_which ==
    /\ pc = "config_path"
    /\ ~PathConfigured(config)
    /\ \/ \E out \in WhichOutputs :
            /\ probes' = Append(probes, Probe("which", "ok", out))
            /\ default_bap_path' = PlausibleDefault(Strip(out))
            /\ pc' = "askfile"
       \/ \E e \in {"OSError", "CalledProcessError"} :
            /\ probes' = Append(probes, Probe("which", e, << >>))
            /\ default_bap_path' = << >>
            /\ pc' = "probe_opam"
    /\ UNCHANGED <<config, callVars, prompted, shownDefault, bap_path, confirmed, refused,
                   runVars, exc>>

\* check_output(['opam', 'config', 'var', 'bap:bin']) in the handler of the first
\* probe's failure, and the suffix test when no exception leaves it
probe_opam ==
    /\ pc = "probe_opam"
    /\ \/ \E out \in OpamOutputs :
            /\ probes' = Append(probes, Probe("opam", "ok", out))
            /\ default_bap_path' = PlausibleDefault(PathJoin(Strip(out), bap))
            /\ pc' = "askfile"
            /\ UNCHANGED exc
       \/ \E e \in {"OSError", "CalledProcessError"} :
            /\ probes' = Append(probes, Probe("opam", e, << >>))
            /\ IF e \in OpamSwallowed
               THEN /\ default_bap_path' = PlausibleDefault(default_bap_path)
                    /\ pc' = "askfile"
                    /\ UNCHANGED exc
               ELSE /\ Raise(e)
                    /\ UNCHANGED default_bap_path
    /\ UNCHANGED <<config, callVars, prompted, shownDefault, bap_path, confirmed, refused,
                   runVars>>

\* the isfile test that follows the suffix test in the prompt loop
AfterSuffix(p) == IF p \notin FilesOnDisk THEN "confirm_isfile" ELSE "persist"

\* idaapi.askfile_c(False, default_bap_path, 'Path to bap') and the tests up to the
\* next dialog
askfile ==
    /\ pc = "askfile"
    /\ prompted' = TRUE
    /\ shownDefault' = Some(default_bap_path)
    /\ confirmed' = {}
    /\ refused' = FALSE
    /\ \/ /\ bap_path' = None
          /\ pc' = "confirm_unset"
       \/ \E p \in UserPaths :
            /\ bap_path' = Some(p)
            /\ pc' = IF ~EndsWith(p, bap) THEN "confirm_suffix" ELSE AfterSuffix(p)
    /\ UNCHANGED <<config, callVars, probes, default_bap_path, runVars, exc>>

\* askyn_c's answers; confirm(msg) is askyn_c(ASKBTN_CANCEL, msg) == ASKBTN_YES
Answers == {"ASKBTN_YES", "ASKBTN_NO", "ASKBTN_CANCEL"}
confirm(answer) == answer = "ASKBTN_YES"

\* where each confirmation leads when it is given, and when it is refused
OnConfirm(at, p) ==
    CASE at = "confirm_unset" -> "config_bap_api"
      [] at = "confirm_suffix" -> AfterSuffix(The(p))
      [] at = "confirm_isfile" -> "persist"
\* faulty variant: a refused suffix confirmation falls through to the isfile test
OnRefuseFallsThrough(at) == IF at = "confirm_suffix" THEN "persist" ELSE "askfile"

OnRefuse(at) == "askfile"

confirm_dialog ==
    /\ pc \in {"confirm_unset", "confirm_suffix", "confirm_isfile"}
    /\ prompted' = TRUE
    /\ \E answer \in Answers :
         IF confirm(answer)
         THEN /\ pc' = OnConfirm(pc, bap_path)
              /\ confirmed' = confirmed \cup {pc}
              /\ refused' = FALSE
         ELSE /\ pc' = OnRefuse(pc)
              /\ refused' = TRUE
              /\ UNCHANGED confirmed
    /\ UNCHANGED <<config, callVars, probes, default_bap_path, shownDefault, bap_path,
                   runVars, exc>>

\* config.set('bap_executable_path', bap_path) after the loop's break
PersistedPath(p) == The(p)

persist_path ==
    /\ pc = "persist"
    /\ config' = ConfigSet(config, K_path, PersistedPath(bap_path))
    /\ pc' = "config_bap_api"
    /\ UNCHANGED <<callVars, cfgVars, runVars, exc>>

\* faulty variant: the flag is never written
ApiFlagNeverUnset(cfg) == FALSE

\* config_bap_api's test: the flag is written only when it is unset
ApiFlagUnset(cfg) == IsNone(ConfigGet(cfg, K_enabled))

config_bap_api ==
    /\ pc = "config_bap_api"
    /\ config' = IF ApiFlagUnset(config) THEN ConfigSet(config, K_enabled, <<"1">>)
                 ELSE config
    /\ flagReads' = flagReads \cup {"config_bap_api"}
    /\ pc' = IF callKind = "configure" THEN "done" ELSE "path_check"
    /\ UNCHANGED <<callParams, cfgVars, runVars, exc>>

---------------------------------------------------------------------------
(* Shell commands, as the words the shell reads *)

\* "<path>"
Quoted(p) == [name |-> "", val |-> p, quoted |-> TRUE, sub |-> ""]
\* a bare word
Word(w) == [name |-> w, val |-> << >>, quoted |-> FALSE, sub |-> ""]
\* <name><value>
Opt(n, v) == [name |-> n, val |-> v, quoted |-> FALSE, sub |-> ""]
\* <name>"<path>"
OptQuoted(n, p) == [name |-> n, val |-> p, quoted |-> TRUE, sub |-> ""]
\* <name>`<sub> "<path>"`
OptSub(n, c, p) == [name |-> n, val |-> p, quoted |-> TRUE, sub |-> c]

file == <<"f", "i", "l", "e">>

\* Argument strings a caller may pass
ArgStrings == { << >>, <<Word("-analyze")>>, <<Word("-analyze"), Word("-d")>> }

\* the command of the else branch
FullCommand(a) ==
    <<Quoted(a.bap_executable_path), Quoted(a.input_file_path),
      OptQuoted("--read-symbols-from=", a.symbol_file_location),
      Opt("--symbolizer=", file), Opt("--rooter=", file)>>
    \o a.remaining_args
    \o <<Word("-d"), Word(">"), Quoted(a.bap_output_file), Word("2>&1")>>

\* faulty variant: the no_extras branch builds the command of the else branch
MinimalCommandWithExtras(a) == FullCommand(a)

\* the command of the no_extras branch
MinimalCommand(a) ==
    <<Quoted(a.bap_executable_path), Quoted(a.input_file_path)>>
    \o a.remaining_args
    \o <<Word(">"), Quoted(a.bap_output_file), Word("2>&1")>>

ApiAddCommand(a) ==
    <<Quoted(a.bap_executable_path), OptQuoted("--api-add=c:", a.header_path)>>

ApiRemoveCommand(a) ==
    <<Quoted(a.bap_executable_path), OptSub("--api-remove=c:", "basename", a.header_path)>>

\* faulty variant: the header file is left out of the removal
CleanupCommandWithoutHeader(a) ==
    <<Word("rm"), Word("-f"), Quoted(a.symbol_file_location), Quoted(a.bap_output_file)>>

CleanupCommand(a) ==
    <<Word("rm"), Word("-f"), Quoted(a.symbol_file_location), Quoted(a.header_path),
      Quoted(a.bap_output_file)>>

---------------------------------------------------------------------------
(* run_bap_with *)

\* One entry of the call's log: a collaborator call or an idc.Exec call
Event(ev, cmd, path, text, result) ==
    [ev |-> ev, cmd |-> cmd, path |-> path, text |-> text, result |-> result]

ExitStatuses == {"exit 0", "exit 1"}

\* What the main command may leave in the output file
OutputTexts == { << >>, <<"o", "k">> }

\* tempfile.mkstemp(suffix=..., prefix='ida-bap-')[1]
TempPath(suffix) == <<"/tmp/", "ida-bap-", "XXXXXX", suffix>>

\* str(None), which format() substitutes for an unset path
StrOfOption(o) == IF IsNone(o) THEN <<"N", "o", "n", "e">> ELSE The(o)

\* faulty variant: a failed command ends the run
ReturnOnFailure(st, next) == IF st = "exit 1" THEN "done" ELSE next

\* idc.Exec's status is dropped: the statement after the call runs next
AfterExec(st, next) == next

call_run_bap_with ==
    \E a \in ArgStrings, n \in BOOLEAN : EnterCall("run", a, n)

\* faulty variant: the run goes on with the path unset
RunNeverReturnsEarly(cfg) == FALSE

\* the return when the path is still unset after the resolver
RunReturnsEarly(cfg) == IsNone(ConfigGet(cfg, K_path))

path_check ==
    /\ pc = "path_check"
    /\ IF RunReturnsEarly(config)
       THEN /\ pc' = "done"
            /\ UNCHANGED args
       ELSE /\ pc' = "mkstemp_out"
            /\ args' = [bap_executable_path |-> StrOfOption(ConfigGet(config, K_path)),
                        bap_output_file |-> << >>,
                        input_file_path |-> InputFilePath,
                        symbol_file_location |-> << >>,
                        header_path |-> << >>,
                        remaining_args |-> argument_string]
    /\ UNCHANGED <<config, callVars, cfgVars, created, bap_api_enabled, command, log,
                   output, exc>>

\* the three mkstemp calls of the args dictionary, in its order
mkstemp ==
    /\ pc \in {"mkstemp_out", "mkstemp_sym", "mkstemp_hdr"}
    /\ LET suffix == CASE pc = "mkstemp_out" -> ".out"
                       [] pc = "mkstemp_sym" -> ".sym"
                       [] pc = "mkstemp_hdr" -> ".h"
           path == TempPath(suffix)
       IN /\ created' = created \cup {path}
          /\ args' = CASE pc = "mkstemp_out" -> [args EXCEPT !.bap_output_file = path]
                       [] pc = "mkstemp_sym" -> [args EXCEPT !.symbol_file_location = path]
                       [] pc = "mkstemp_hdr" -> [args EXCEPT !.header_path = path]
    /\ pc' = CASE pc = "mkstemp_out" -> "mkstemp_sym"
               [] pc = "mkstemp_sym" -> "mkstemp_hdr"
               [] pc = "mkstemp_hdr" -> "branch"
    /\ UNCHANGED <<config, callVars, cfgVars, bap_api_enabled, command, log, output, exc>>

\* faulty variant: the stored value is compared without lower()
ApiEnabledCaseSensitive(cfg) ==
    ConfigGetDefault(cfg, K_enabled, <<"0">>)
        \in { <<"1">>, <<"t", "r", "u", "e">>, <<"y", "e", "s">> }

\* config.get('enabled', default='0', section='bap_api').lower() in ('1', 'true', 'yes')
ApiEnabled(cfg) ==
    Lower(ConfigGetDefault(cfg, K_enabled, <<"0">>))
        \in { <<"1">>, <<"t", "r", "u", "e">>, <<"y", "e", "s">> }

\* faulty variant: the extra work is done in every mode
NeverMinimal(n) == FALSE

\* the test of no_extras that chooses the branch
TakesMinimalBranch(n) == n

branch ==
    /\ pc = "branch"
    /\ IF TakesMinimalBranch(no_extras)
       THEN /\ command' = MinimalCommand(args)
            /\ pc' = "exec_main"
            /\ UNCHANGED <<bap_api_enabled, flagReads>>
       ELSE /\ bap_api_enabled' = ApiEnabled(config)
            /\ flagReads' = flagReads \cup {"run_bap_with"}
            /\ pc' = "dump_symbol_info"
            /\ UNCHANGED command
    /\ UNCHANGED <<config, callParams, cfgVars, args, created, log, output, exc>>

\* ida.dump_symbol_info(args['symbol_file_location'])
dump_symbol_info ==
    /\ pc = "dump_symbol_info"
    /\ \/ /\ log' = Append(log, Event("dump_symbol_info", << >>,
                                      args.symbol_file_location, << >>, "ok"))
          /\ IF bap_api_enabled
             THEN /\ pc' = "dump_c_header"
                  /\ UNCHANGED command
             ELSE /\ pc' = "exec_main"
                  /\ command' = FullCommand(args)
          /\ UNCHANGED exc
       \/ /\ log' = Append(log, Event("dump_symbol_info", << >>,
                                      args.symbol_file_location, << >>, "raised"))
          /\ Raise("Exception")
          /\ UNCHANGED command
    /\ UNCHANGED <<config, callVars, cfgVars, args, created, bap_api_enabled, output>>

\* ida.dump_c_header(args['header_path'])
dump_c_header ==
    /\ pc = "dump_c_header"
    /\ \/ /\ log' = Append(log, Event("dump_c_header", << >>, args.header_path, << >>, "ok"))
          /\ pc' = "api_add"
          /\ UNCHANGED exc
       \/ /\ log' = Append(log, Event("dump_c_header", << >>, args.header_path, << >>,
                                      "raised"))
          /\ Raise("Exception")
    /\ UNCHANGED <<config, callVars, cfgVars, args, created, bap_api_enabled, command,
                   output>>

\* idc.Exec of the --api-add side-call, then the else branch's command
api_add ==
    /\ pc = "api_add"
    /\ \E st \in ExitStatuses :
         /\ log' = Append(log, Event("Exec", ApiAddCommand(args), << >>, << >>, st))
         /\ pc' = AfterExec(st, "exec_main")
    /\ command' = FullCommand(args)
    /\ UNCHANGED <<config, callVars, cfgVars, args, created, bap_api_enabled, output, exc>>

\* idc.Exec(command)
exec_main ==
    /\ pc = "exec_main"
    /\ \E st \in ExitStatuses :
         /\ log' = Append(log, Event("Exec", command, << >>, << >>, st))
         /\ pc' = AfterExec(st, "read_output")
    /\ \E text \in OutputTexts : output' = Some(text)
    /\ UNCHANGED <<config, callVars, cfgVars, args, created, bap_api_enabled, command, exc>>

\* open(args['bap_output_file'], 'r') and f.read()
read_output ==
    /\ pc = "read_output"
    /\ \/ /\ log' = Append(log, Event("read", << >>, args.bap_output_file, The(output),
                                      "ok"))
          /\ pc' = "update"
          /\ UNCHANGED exc
       \/ /\ log' = Append(log, Event("read", << >>, args.bap_output_file, << >>,
                                      "raised"))
          /\ Raise("IOError")
    /\ UNCHANGED <<config, callVars, cfgVars, args, created, bap_api_enabled, command,
                   output>>

\* BAP_View.update(transcript of command + output)
update ==
    /\ pc = "update"
    /\ \/ /\ log' = Append(log, Event("BAP_View.update", command, << >>, The(output), "ok"))
          /\ pc' = "close_view"
          /\ UNCHANGED exc
       \/ /\ log' = Append(log, Event("BAP_View.update", command, << >>, The(output),
                                      "raised"))
          /\ Raise("Exception")
    /\ UNCHANGED <<config, callVars, cfgVars, args, created, bap_api_enabled, command,
                   output>>

\* faulty variant: the --api-remove side-call is never made
ApiRemoveNever(n, enabled) == FALSE

\* the test that guards the --api-remove side-call
ApiRemoveDue(n, enabled) == ~n /\ enabled

\* idaapi.find_tform("BAP View") and close_tform when it is found
close_view ==
    /\ pc = "close_view"
    /\ \/ log' = Append(log, Event("close_tform", << >>, << >>, << >>, "ok"))
       \/ UNCHANGED log
    /\ pc' = IF ApiRemoveDue(no_extras, bap_api_enabled) THEN "api_remove" ELSE "cleanup"
    /\ UNCHANGED <<config, callVars, cfgVars, args, created, bap_api_enabled, command,
                   output, exc>>

\* idc.Exec of the --api-remove side-call
api_remove ==
    /\ pc = "api_remove"
    /\ \E st \in ExitStatuses :
         /\ log' = Append(log, Event("Exec", ApiRemoveCommand(args), << >>, << >>, st))
         /\ pc' = AfterExec(st, "cleanup")
    /\ UNCHANGED <<config, callVars, cfgVars, args, created, bap_api_enabled, command,
                   output, exc>>

\* idc.Exec of rm -f on the three temp files
cleanup ==
    /\ pc = "cleanup"
    /\ \E st \in ExitStatuses :
         /\ log' = Append(log, Event("Exec", CleanupCommand(args), << >>, << >>, st))
         /\ pc' = AfterExec(st, "done")
    /\ UNCHANGED <<config, callVars, cfgVars, args, created, bap_api_enabled, command,
                   output, exc>>

---------------------------------------------------------------------------
(* The specification *)

Init ==
    /\ config \in Configs
    /\ pc = "idle"
    /\ callKind = "configure"
    /\ argument_string = << >>
    /\ no_extras = FALSE
    /\ config0 = config
    /\ afterConfigure = FALSE
    /\ flagReads = {}
    /\ probes = << >>
    /\ default_bap_path = << >>
    /\ prompted = FALSE
    /\ shownDefault = None
    /\ bap_path = None
    /\ confirmed = {}
    /\ refused = FALSE
    /\ args = NoArgs
    /\ created = {}
    /\ bap_api_enabled = FALSE
    /\ command = << >>
    /\ log = << >>
    /\ output = None
    /\ exc = ""

Next ==
    \/ call_check_and_configure_bap
    \/ call_run_bap_with
    \/ config_path_return
    \/ probe_which
    \/ probe_opam
    \/ askfile
    \/ confirm_dialog
    \/ persist_path
    \/ config_bap_api
    \/ path_check
    \/ mkstemp
    \/ branch
    \/ dump_symbol_info
    \/ dump_c_header
    \/ api_add
    \/ exec_main
    \/ read_output
    \/ update
    \/ close_view
    \/ api_remove
    \/ cleanup

Spec == Init /\ [][Next]_vars

---------------------------------------------------------------------------
(* What the claims speak of *)

Ended == pc = "done"
ReturnedNormally == pc = "done" /\ exc = ""

ExecIndices == {i \in 1..Len(log) : log[i].ev = "Exec"}
HasName(cmd, n) == \E i \in 1..Len(cmd) : cmd[i].name = n
IsCleanup(cmd) == Len(cmd) > 0 /\ cmd[1] = Word("rm")
CleanupIndices == {i \in ExecIndices : IsCleanup(log[i].cmd)}
QuotedPaths(cmd) == {cmd[i].val : i \in {j \in 1..Len(cmd) : cmd[j].quoted}}
\* the paths handed to the removal step so far
Removed == UNION {QuotedPaths(log[i].cmd) : i \in CleanupIndices}
PathSetIn(cfg) == K_path \in DOMAIN cfg
\* the user left the path unset: the file dialog gave no path and the user confirmed
UserDeclined == IsNone(bap_path) /\ "confirm_unset" \in confirmed
\* the call is past the path check of run_bap_with and has made its temp files
PastPathCheck == callKind = "run" /\ created # {}

---------------------------------------------------------------------------
(* C1: a call of run_bap_with that starts with the path unset and in which *)
(* the user declines to set one leaves the path absent, invokes no         *)
(* idc.Exec and creates no temp file.                                      *)
C1_DeclinedRunDoesNothing ==
    (callKind = "run" /\ ~PathSetIn(config0) /\ UserDeclined)
        => /\ ~PathSetIn(config)
           /\ ExecIndices = {}
           /\ created = {}

C1_Witness ==
    /\ callKind = "run" /\ ~PathSetIn(config0) /\ UserDeclined
    /\ ReturnedNormally

(* C2: when a call of run_bap_with has ended, on whatever path, every temp *)
(* file it created has been handed to the removal step.                    *)
C2_NoTempFileOutlivesCall ==
    Ended => created \subseteq Removed

(* C3: a run that got as far as creating its temp files issues the cleanup *)
(* removal exactly once, and that call names all three temp files.         *)
C3_CleanupExactlyOnce ==
    (Ended /\ PastPathCheck)
        => /\ Cardinality(CleanupIndices) = 1
           /\ \A i \in CleanupIndices :
                QuotedPaths(log[i].cmd) =
                    {args.symbol_file_location, args.header_path, args.bap_output_file}

(* C4: whatever the two probes do (cannot be run, exit non-zero, succeed), *)
(* once probing is over no probe's exception has left                      *)
(* check_and_configure_bap and the user is prompted.                       *)
C4_ProbeFailuresSwallowed ==
    (probes # << >> /\ pc # "probe_opam")
        => /\ exc \notin {"OSError", "CalledProcessError"}
           /\ pc = "askfile" \/ prompted

(* C5: the default path handed to the file dialog is empty when both       *)
(* probes failed or the probe result used does not end with 'bap';         *)
(* otherwise it is the result of 'which bap' when that succeeded, else the *)
(* opam bin directory joined with 'bap'.                                   *)
C5_SuggestedDefault ==
    ~IsNone(shownDefault) =>
        LET whichOk == probes[1].outcome = "ok"
            opamOk == Len(probes) = 2 /\ probes[2].outcome = "ok"
            whichResult == Strip(probes[1].out)
            opamResult == PathJoin(Strip(probes[2].out), bap)
            used == IF whichOk THEN whichResult ELSE opamResult
        IN /\ ~PathSetIn(config0)
           /\ IF (~whichOk /\ ~opamOk) \/ ~EndsWith(used, bap)
              THEN The(shownDefault) = << >>
              ELSE IF whichOk THEN The(shownDefault) = whichResult
              ELSE The(shownDefault) = opamResult

C5_Witness ==
    /\ shownDefault = Some(P_x_bap)
    /\ Len(probes) = 2 /\ probes[2].outcome = "ok"

(* C6: when a call of check_and_configure_bap has ended, the 'enabled' key *)
(* of section 'bap_api' is "1" if it was unset before the call, and holds  *)
(* its previous value if it was set.                                       *)
C6_ApiFlagDefaultsOn ==
    Ended =>
        /\ K_enabled \in DOMAIN config
        /\ config[K_enabled] =
             IF K_enabled \in DOMAIN config0 THEN config0[K_enabled] ELSE <<"1">>

(* C7: in a call that starts with bap_executable_path set, no discovery    *)
(* probe is invoked, no dialog is shown, and the path stays as it was.     *)
C7_ConfiguredPathSkipsDiscovery ==
    PathSetIn(config0)
        => /\ probes = << >>
           /\ ~prompted
           /\ PathSetIn(config) /\ config[K_path] = config0[K_path]

C7_Witness ==
    /\ PathSetIn(config0)
    /\ pc = "done" /\ callKind = "configure"

(* C8: in a full-mode run with the API flag disabled no --api-add and no   *)
(* --api-remove side-call is executed and the header export is not         *)
(* invoked, yet the cleanup removal, issued by every such run that runs to *)
(* its end, names the header temp file.                                    *)
C8_ApiDisabledFullRun ==
    (PastPathCheck /\ ~no_extras /\ ~ApiEnabled(config))
        => /\ \A i \in ExecIndices :
                /\ ~HasName(log[i].cmd, "--api-add=c:")
                /\ ~HasName(log[i].cmd, "--api-remove=c:")
           /\ \A i \in 1..Len(log) : log[i].ev # "dump_c_header"
           /\ \A i \in CleanupIndices : TempPath(".h") \in QuotedPaths(log[i].cmd)
           /\ ReturnedNormally => CleanupIndices # {}

C8_Witness ==
    /\ PastPathCheck /\ ~no_extras /\ ~ApiEnabled(config)
    /\ ReturnedNormally
    /\ CleanupIndices # {}

(* C9: in minimal mode the main command is the executable path, the input  *)
(* file path, the caller's argument string and the redirection into the    *)
(* output temp file, and nothing else: it holds --read-symbols-from,       *)
(* --symbolizer, --rooter or -d only if the argument string does.          *)
ExtraFlags == {"--read-symbols-from=", "--symbolizer=", "--rooter=", "-d"}

C9_MinimalCommand ==
    (callKind = "run" /\ no_extras /\ pc \in {"exec_main", "read_output", "update",
                                               "close_view", "cleanup", "done"}
       /\ PastPathCheck)
        => /\ command = <<Quoted(config[K_path]), Quoted(InputFilePath)>>
                        \o argument_string
                        \o <<Word(">"), Quoted(TempPath(".out")), Word("2>&1")>>
           /\ (\A f \in ExtraFlags : ~HasName(argument_string, f))
                => (\A f \in ExtraFlags : ~HasName(command, f))
           /\ \A i \in ExecIndices \ CleanupIndices : log[i].cmd = command

C9_Witness ==
    /\ callKind = "run" /\ no_extras /\ ReturnedNormally /\ PastPathCheck
    /\ argument_string = <<Word("-analyze")>>
    /\ \E i \in ExecIndices :
         log[i].cmd = <<Quoted(P_bap), Quoted(InputFilePath), Word("-analyze"),
                        Word(">"), Quoted(TempPath(".out")), Word("2>&1")>>

(* C10: the prompt loop is left only by a decision of the user: without a  *)
(* path only when the file dialog gave none and the user confirmed leaving *)
(* it unset; with a path only when every soft validation that failed was   *)
(* confirmed; a refused confirmation re-opens the file dialog; and the     *)
(* path that leaves the loop is the one stored.                            *)
InLoop(at) == at \in {"askfile", "confirm_unset", "confirm_suffix", "confirm_isfile"}
ConfirmStep(at) == at \in {"confirm_unset", "confirm_suffix", "confirm_isfile"}

C10_Step ==
    /\ (InLoop(pc) /\ ~InLoop(pc')) => pc' \in {"config_bap_api", "persist"}
    /\ (InLoop(pc) /\ pc' = "config_bap_api")
         => /\ IsNone(bap_path') /\ "confirm_unset" \in confirmed'
            /\ config' = config
    /\ (InLoop(pc) /\ pc' = "persist")
         => /\ ~IsNone(bap_path')
            /\ ~EndsWith(The(bap_path'), bap) => "confirm_suffix" \in confirmed'
            /\ The(bap_path') \notin FilesOnDisk => "confirm_isfile" \in confirmed'
    /\ (ConfirmStep(pc) /\ refused') => pc' = "askfile"
    /\ (ConfirmStep(pc) /\ ~refused') => confirmed' = confirmed \cup {pc}
    /\ (pc = "persist" /\ pc' # "persist")
         => /\ PathSetIn(config') /\ config'[K_path] = The(bap_path)
            /\ pc' = "config_bap_api"

C10_PromptLoop == [][C10_Step]_vars

C10_Witness ==
    /\ pc = "config_bap_api"
    /\ ~PathSetIn(config0)
    /\ bap_path = Some(P_x)
    /\ confirmed = {"confirm_suffix", "confirm_isfile"}
    /\ PathSetIn(config) /\ config[K_path] = P_x

---------------------------------------------------------------------------
(* The steps of a run, read off its log *)

\* what a log entry is: a collaborator call by its name, an idc.Exec by its command
EventKind(e) ==
    IF e.ev # "Exec" THEN e.ev
    ELSE IF IsCleanup(e.cmd) THEN "cleanup"
    ELSE IF HasName(e.cmd, "--api-add=c:") THEN "api-add"
    ELSE IF HasName(e.cmd, "--api-remove=c:") THEN "api-remove"
    ELSE "main"

NotCloseView(e) == e.ev # "close_tform"
IsExecEvent(e) == e.ev = "Exec"
KindsOf(events) == [i \in 1..Len(events) |-> EventKind(events[i])]
\* the steps so far, the closing of the view left out
Steps == KindsOf(SelectSeq(log, NotCloseView))
\* the subprocess calls so far
ExecSteps == KindsOf(SelectSeq(log, IsExecEvent))
Occurs(k, steps) == \E i \in 1..Len(steps) : steps[i] = k
IsPrefix(a, b) == Len(a) <= Len(b) /\ SubSeq(b, 1, Len(a)) = a

\* the stored values of 'enabled' that the claims call enabled
TruthyStored == { <<"1">>, <<"T", "r", "u", "e">>, <<"Y", "E", "S">> }
FlagTruthy(cfg) == K_enabled \in DOMAIN cfg /\ cfg[K_enabled] \in TruthyStored

\* the steps of a run that is not aborted, in the order the claims list them
ListedSteps(minimal, enabled) ==
    IF minimal THEN <<"main", "read", "BAP_View.update", "cleanup">>
    ELSE IF enabled
    THEN <<"dump_symbol_info", "dump_c_header", "api-add", "main", "read",
           "BAP_View.update", "api-remove", "cleanup">>
    ELSE <<"dump_symbol_info", "main", "read", "BAP_View.update", "cleanup">>

(* C12: the steps of a run occur in the listed order: at every moment the  *)
(* steps taken are an initial part of the list of the run's mode, and a    *)
(* run that is not aborted has taken the whole list, the cleanup last.     *)
C12_StepsInOrder ==
    PastPathCheck
        => /\ IsPrefix(Steps, ListedSteps(no_extras, FlagTruthy(config)))
           /\ ReturnedNormally => Steps = ListedSteps(no_extras, FlagTruthy(config))

C12_Witness ==
    /\ PastPathCheck /\ ReturnedNormally /\ ~no_extras /\ FlagTruthy(config)
    /\ Len(Steps) = 8 /\ Steps[3] = "api-add" /\ Steps[7] = "api-remove"

(* C13: no exit status changes the control flow: after every idc.Exec,     *)
(* whatever its status, no exception is raised and the next statement of   *)
(* the mode runs; no command is issued twice; what is read and displayed   *)
(* is what the output file holds; and a run that is not aborted has issued *)
(* --api-remove exactly in full mode with the API enabled, and the cleanup.*)
C13_Step ==
    LET last == log'[Len(log')]
        k == EventKind(last)
    IN /\ (Len(log') = Len(log) + 1 /\ last.ev = "Exec")
            => /\ exc' = ""
               /\ pc' = CASE k = "api-add" -> "exec_main"
                          [] k = "main" -> "read_output"
                          [] k = "api-remove" -> "cleanup"
                          [] k = "cleanup" -> "done"
               /\ ~Occurs(k, Steps)
       /\ (Len(log') = Len(log) + 1 /\ last.ev \in {"read", "BAP_View.update"}
             /\ last.result = "ok")
            => /\ Occurs("main", Steps)
               /\ last.text = The(output)
       /\ (PastPathCheck /\ ReturnedNormally)
            => /\ Occurs("read", Steps) /\ Occurs("BAP_View.update", Steps)
               /\ Occurs("api-remove", Steps) <=> (~no_extras /\ FlagTruthy(config))
               /\ Occurs("cleanup", Steps)

C13_ExitStatusIgnored == [][C13_Step]_vars

C13_Witness ==
    /\ PastPathCheck /\ ReturnedNormally /\ ~no_extras
    /\ Len(ExecSteps) = 4
    /\ \A i \in ExecIndices : EventKind(log[i]) # "cleanup" => log[i].result = "exit 1"
    /\ output = Some(<< >>)

(* C14: in minimal mode neither export is invoked, the API flag is not    *)
(* consulted, and the subprocess calls are the main command, then the      *)
(* cleanup, and no other.                                                  *)
C14_MinimalDoesNoExtras ==
    (callKind = "run" /\ no_extras)
        => /\ ~Occurs("dump_symbol_info", Steps) /\ ~Occurs("dump_c_header", Steps)
           /\ flagReads = {}
           /\ IsPrefix(ExecSteps, <<"main", "cleanup">>)
           /\ (PastPathCheck /\ ReturnedNormally) => ExecSteps = <<"main", "cleanup">>

(* C14, amended: in minimal mode neither export is invoked, the body of    *)
(* run_bap_with never reads the API flag (the resolver it calls first      *)
(* does: it tests the key and writes "1" when it is unset), and the        *)
(* subprocess calls are the main command, then the cleanup, and no other.  *)
C14_MinimalDoesNoExtrasInBody ==
    (callKind = "run" /\ no_extras)
        => /\ ~Occurs("dump_symbol_info", Steps) /\ ~Occurs("dump_c_header", Steps)
           /\ "run_bap_with" \notin flagReads
           /\ bap_api_enabled = FALSE
           /\ PastPathCheck => (flagReads = {"config_bap_api"} /\ K_enabled \in DOMAIN config)
           /\ IsPrefix(ExecSteps, <<"main", "cleanup">>)
           /\ (PastPathCheck /\ ReturnedNormally) => ExecSteps = <<"main", "cleanup">>

C14_Witness ==
    /\ callKind = "run" /\ no_extras /\ PastPathCheck /\ ReturnedNormally
    /\ K_enabled \notin DOMAIN config0 /\ FlagTruthy(config)
    /\ ExecSteps = <<"main", "cleanup">>

(* C15: in a full-mode run the API counts as enabled exactly when the      *)
(* stored 'enabled' value, lower-cased, is "1", "true" or "yes"; any other *)
(* stored value gives a run without header export and side-calls; the      *)
(* symbol export is the first step in both cases.                          *)
C15_ApiTruthiness ==
    (PastPathCheck /\ ~no_extras /\ Steps # << >>)
        => /\ bap_api_enabled = FlagTruthy(config)
           /\ FlagTruthy(config)
                <=> Lower(config[K_enabled]) \in { <<"1">>, <<"t", "r", "u", "e">>,
                                                   <<"y", "e", "s">> }
           /\ config[K_enabled] \in { <<"0">>, <<"n", "o">>, <<"o", "n">>, << >> }
                => ~bap_api_enabled
           /\ Steps[1] = "dump_symbol_info"
           /\ ~FlagTruthy(config)
                => /\ ~Occurs("dump_c_header", Steps)
                   /\ ~Occurs("api-add", Steps) /\ ~Occurs("api-remove", Steps)
           /\ (ReturnedNormally /\ FlagTruthy(config))
                => /\ Occurs("dump_c_header", Steps)
                   /\ Occurs("api-add", Steps) /\ Occurs("api-remove", Steps)

C15_Witness ==
    /\ PastPathCheck /\ ~no_extras /\ ReturnedNormally
    /\ config[K_enabled] = <<"Y", "E", "S">>
    /\ Occurs("api-add", Steps)

(* C16: every full-mode run that is past the path check finds the          *)
(* 'enabled' key in the store, so the fallback '0' is never used; a run on *)
(* a store where the flag was never set reads "1" and runs as API-enabled. *)
C16_FallbackNeverUsed ==
    (PastPathCheck /\ ~no_extras)
        => /\ K_enabled \in DOMAIN config
           /\ (K_enabled \notin DOMAIN config0)
                => /\ config[K_enabled] = <<"1">>
                   /\ Steps # << >> => bap_api_enabled
                   /\ ReturnedNormally
                        => /\ Occurs("dump_c_header", Steps)
                           /\ Occurs("api-add", Steps) /\ Occurs("api-remove", Steps)

C16_Witness ==
    /\ PastPathCheck /\ ~no_extras /\ ReturnedNormally
    /\ K_enabled \notin DOMAIN config0
    /\ Occurs("api-add", Steps) /\ Occurs("api-remove", Steps)

(* C17: when a call of run_bap_with has ended, on whatever path, the       *)
(* --api-remove side-call has been issued if and only if the --api-add     *)
(* side-call was.                                                          *)
C17_RegistrationBalanced ==
    Ended => (Occurs("api-remove", Steps) <=> Occurs("api-add", Steps))

=============================================================================
